---- MODULE Spec2Model ----
(***************************************************************************)
(* A model of M3U8Downloader (src/M3U8Downloader.py, and the same methods  *)
(* in src/scrape.py): download of the top-level manifest, variant parsing, *)
(* the resolution prompt, download of the selected variant's sub-manifest, *)
(* sequential segment retrieval into temp.ts, and the conversion to MP4.   *)
(*                                                                         *)
(* Strings are sequences of tokens.  A token is an indivisible piece of    *)
(* text: the markers the code looks for ("https://", "RESOLUTION=", ",",   *)
(* "/", "\n", " ", the decimal digits) and opaque words.  A bytes value is *)
(* a sequence of one-byte tokens.  Python's None is the empty sequence and *)
(* a present value x is <<x>>.                                             *)
(***************************************************************************)
EXTENDS Naturals, Sequences, FiniteSets

VARIABLES
    server_top,     \* the document served at self.url
    server_sub,     \* the document served at every variant URL
    pc,             \* position of the single thread of control
    m3u8_content,   \* self.m3u8_content (None | text)
    media_urls,     \* self.media_urls, an insertion-ordered dict
    choice,         \* what input() returned (None before the prompt)
    selected_url,   \* selected_url / url handed to merge_segments_and_convert
    sub_content,    \* m3u8_content local to concatenate_segments
    segment_urls,   \* segment_urls local to concatenate_segments
    i,              \* number of segment_urls the loop has processed
    outfile,        \* the bytes written through outfile
    file_open,      \* outfile is open (inside the with block)
    temp_exists,    \* os.path.exists("temp.ts")
    video,          \* result of the try block of convert_to_mp4
    fetched,        \* every requests.get issued: [url, status]
    log,            \* everything printed
    exc             \* the exception that ended the run, if any

vars == <<server_top, server_sub, pc, m3u8_content, media_urls, choice,
          selected_url, sub_content, segment_urls, i, outfile, file_open,
          temp_exists, video, fetched, log, exc>>

----------------------------------------------------------------------------
(* Bounds of the model. *)

\* Longest top-level manifest, in lines.
MaxTopLines == 4
\* Longest sub-manifest, in lines.
MaxSubLines == 3

----------------------------------------------------------------------------
(* Text helpers. *)

None == <<>>
Some(x) == <<x>>

Range(s) == {s[k] : k \in 1..Len(s)}

\* All sequences over S of length at most n.
SeqUpTo(S, n) == UNION {[1..k -> S] : k \in 0..n}

\* str.startswith(prefix) for a one-token prefix.
StartsWith(line, tok) == Len(line) > 0 /\ line[1] = tok

\* `tok in line` for a one-token needle.
Contains(line, tok) == tok \in Range(line)

\* str.split(sep) for a one-token separator: the pieces between separators.
RECURSIVE SplitFrom(_, _, _)
SplitFrom(s, sep, cur) ==
    IF s = <<>> THEN <<cur>>
    ELSE IF Head(s) = sep THEN <<cur>> \o SplitFrom(Tail(s), sep, <<>>)
    ELSE SplitFrom(Tail(s), sep, Append(cur, Head(s)))

Split(s, sep) == SplitFrom(s, sep, <<>>)

\* str.splitlines(): the pieces between line breaks, without a last empty piece.
SplitLines(text) ==
    LET parts == Split(text, "\n")
    IN  IF parts[Len(parts)] = <<>> THEN SubSeq(parts, 1, Len(parts) - 1) ELSE parts

\* The text whose lines are ls, each ended by a line break.
RECURSIVE JoinLines(_)
JoinLines(ls) == IF ls = <<>> THEN <<>> ELSE Head(ls) \o <<"\n">> \o JoinLines(Tail(ls))

\* str.strip(): leading and trailing blanks removed.
RECURSIVE LStrip(_)
LStrip(s) == IF s # <<>> /\ Head(s) = " " THEN LStrip(Tail(s)) ELSE s

RECURSIVE RStrip(_)
RStrip(s) == IF s # <<>> /\ s[Len(s)] = " " THEN RStrip(SubSeq(s, 1, Len(s) - 1)) ELSE s

Strip(s) == RStrip(LStrip(s))

Digits == <<"0", "1", "2", "3", "4", "5", "6", "7", "8", "9">>

\* str.isdigit(): non-empty and every character a digit.
IsDigit(s) == s # <<>> /\ \A k \in 1..Len(s) : s[k] \in Range(Digits)

DigitVal(d) == (CHOOSE k \in 1..10 : Digits[k] = d) - 1

\* int(s) for a string of decimal digits.
RECURSIVE ToInt(_)
ToInt(s) == IF s = <<>> THEN 0
            ELSE 10 * ToInt(SubSeq(s, 1, Len(s) - 1)) + DigitVal(s[Len(s)])

\* The text an f-string gives for a non-negative int.
RECURSIVE ToStr(_)
ToStr(n) == IF n < 10 THEN <<Digits[n + 1]>>
            ELSE ToStr(n \div 10) \o <<Digits[(n % 10) + 1]>>

\* list.index(x): the position (from 0) of the first element equal to x.
ListIndex(lines, x) == (CHOOSE k \in 1..Len(lines) :
                          lines[k] = x /\ \A j \in 1..(k - 1) : lines[j] # x) - 1

----------------------------------------------------------------------------
(* The insertion-ordered dict self.media_urls: a sequence of entries. *)

DictKeys(d) == [k \in 1..Len(d) |-> d[k].key]

DictHas(d, key) == \E k \in 1..Len(d) : d[k].key = key

DictGet(d, key) == d[CHOOSE k \in 1..Len(d) : d[k].key = key].value

\* d[key] = value: a present key keeps its place and takes the new value.
DictSet(d, key, value) ==
    IF DictHas(d, key)
    THEN [k \in 1..Len(d) |-> IF d[k].key = key THEN [key |-> key, value |-> value] ELSE d[k]]
    ELSE Append(d, [key |-> key, value |-> value])

----------------------------------------------------------------------------
(* The network and the user. *)

\* self.url, as in the entry point of src/scrape.py.
TopUrl == <<"https://", "fast.wistia.com", "/", "embed", "/", "medias", "/", "w9dz27s7pu.m3u8">>

\* base_url of concatenate_segments.
base_url == <<"https://", "embed-cloudfront.wistia.com">>

\* chunk_size of response.iter_content.
chunk_size == 8192

\* What a requests.get can end with: 0 stands for a transport failure (the
\* call raises and there is no response), the others are status codes.
Outcomes == {0, 200, 404}

\* Lines of top-level manifests.
M720 == <<"#EXT-X-STREAM-INF:", "BANDWIDTH=1", ",", "RESOLUTION=", "720p", ",", "NAME=a">>
M1080 == <<"#EXT-X-STREAM-INF:", "RESOLUTION=", "1080p">>
U1 == <<"https://", "h", "/", "v1.m3u8">>
U2 == <<"https://", "h", "/", "v2.m3u8">>
TopLines == {M720, M1080, U1, U2}

\* Lines of sub-manifests.
SegA == <<"/", "a">>
SegB == <<"/", "b">>
SegC == <<"/", "c">>
ExtInf == <<"#EXTINF:", "10">>
SubLines == {SegA, SegB, SegC, ExtInf}

TopTexts == {JoinLines(ls) : ls \in SeqUpTo(TopLines, MaxTopLines)}
SubTexts == {JoinLines(ls) : ls \in SeqUpTo(SubLines, MaxSubLines)}

\* The manifests served when the other one varies.
FixedTopText == JoinLines(<<M720, U1, M1080, U2>>)
FixedSubText == JoinLines(<<ExtInf, SegA, ExtInf, SegB, ExtInf, SegC>>)

\* What the user can type at the prompt.
Inputs == {<<>>, <<" ">>, <<"1">>, <<"2">>, <<"0">>, <<"7">>, <<"720p">>,
           <<" ", "1080p", " ">>, <<"Unknown">>, <<"480p">>}

\* The body the server holds for a segment URL.
Body(url) ==
    CASE url[Len(url)] = "a" -> <<"A", "A", "A">>
      [] url[Len(url)] = "b" -> <<"B", "B">>
      [] url[Len(url)] = "c" -> <<"C">>
      [] OTHER -> <<"?">>

\* The body of a response that is not a 200 (an error page).
ErrorBody == <<"E", "R", "R">>

\* The response to a GET of a segment URL that ends with `status`.
SegmentResponse(url, status) ==
    [status_code |-> status, content |-> IF status = 200 THEN Body(url) ELSE ErrorBody]

\* A printed line: the f-string's fixed text and its interpolated values.
Msg(fmt, args) == [fmt |-> fmt, args |-> args]

\* An exception: its class and the message it carries.
Raised(type, fmt, args) == Some([type |-> type, fmt |-> fmt, args |-> args])

----------------------------------------------------------------------------
(* Pure functions of the program. *)

\* urllib.parse.urljoin(base, ref) for a base without a path and a reference
\* that starts with "/": a root-relative path replaces the path, and a
\* reference that starts with "//" replaces the host too.
urljoin(base, ref) ==
    IF Len(ref) >= 2 /\ ref[1] = "/" /\ ref[2] = "/"
    THEN <<base[1]>> \o SubSeq(ref, 3, Len(ref))
    ELSE base \o ref

\* M3U8Downloader.extract_resolution
extract_resolution(line) ==
    IF Contains(line, "RESOLUTION=")
    THEN Split(Split(line, "RESOLUTION=")[2], ",")[1]
    ELSE <<"Unknown">>

\* resolution_line of parse_m3u8 for the loop's current `line`.
resolution_line(lines, line) ==
    IF ListIndex(lines, line) > 0
    THEN lines[(ListIndex(lines, line) - 1) + 1]
    ELSE <<>>

\* The loop of parse_m3u8 from line k (from 1) on, starting with dict d.
RECURSIVE ParseFrom(_, _, _)
ParseFrom(lines, k, d) ==
    IF k > Len(lines) THEN d
    ELSE IF StartsWith(lines[k], "https://")
    THEN ParseFrom(lines, k + 1,
                   DictSet(d, extract_resolution(resolution_line(lines, lines[k])), lines[k]))
    ELSE ParseFrom(lines, k + 1, d)

\* The "Available resolutions:" listing of ask_resolution_and_download.
Listing(d) ==
    <<Msg("Available resolutions:", <<>>)>> \o
    [k \in 1..Len(d) |-> Msg("{index + 1}. {resolution} - {url}",
                             <<ToStr(k), d[k].key, d[k].value>>)]

\* The branch on `choice` of ask_resolution_and_download: the resolution it
\* selects, or the message it prints before it returns.
SelectResolution(d, c) ==
    IF IsDigit(c)
    THEN IF 1 <= ToInt(c) /\ ToInt(c) <= Len(d)
         THEN [ok |-> TRUE, resolution |-> DictKeys(d)[ToInt(c)], fmt |-> ""]
         ELSE [ok |-> FALSE, resolution |-> <<>>, fmt |-> "Invalid choice."]
    ELSE IF DictHas(d, c)
         THEN [ok |-> TRUE, resolution |-> c, fmt |-> ""]
         ELSE [ok |-> FALSE, resolution |-> <<>>, fmt |-> "Invalid resolution name."]

\* A variant of SegmentUrls that keeps only the first occurrence of a URL.
RECURSIVE SegmentUrlsUnique(_)
SegmentUrlsUnique(lines) ==
    IF lines = <<>> THEN <<>>
    ELSE LET rest == SegmentUrlsUnique(SubSeq(lines, 1, Len(lines) - 1))
             last == lines[Len(lines)]
         IN  IF StartsWith(last, "/") /\ urljoin(base_url, last) \notin Range(rest)
             THEN Append(rest, urljoin(base_url, last))
             ELSE rest

\* segment_urls of concatenate_segments.
RECURSIVE SegmentUrls(_)
SegmentUrls(lines) ==
    IF lines = <<>> THEN <<>>
    ELSE IF StartsWith(Head(lines), "/")
    THEN <<urljoin(base_url, Head(lines))>> \o SegmentUrls(Tail(lines))
    ELSE SegmentUrls(Tail(lines))

\* response.iter_content(chunk_size=size): the body in pieces of at most size.
RECURSIVE iter_content(_, _)
iter_content(content, size) ==
    IF content = <<>> THEN <<>>
    ELSE IF Len(content) <= size THEN <<content>>
    ELSE <<SubSeq(content, 1, size)>> \o iter_content(SubSeq(content, size + 1, Len(content)), size)

\* outfile.write(chunk) for each chunk, in order.
RECURSIVE WriteChunks(_, _)
WriteChunks(out, chunks) ==
    IF chunks = <<>> THEN out ELSE WriteChunks(out \o Head(chunks), Tail(chunks))

\* A variant of WriteResponse that writes the body whatever the status.
WriteResponseAnyStatus(out, response) ==
    WriteChunks(out, iter_content(response.content, chunk_size))

\* The body of the segment loop for one response: what outfile holds after it.
WriteResponse(out, response) ==
    IF response.status_code = 200
    THEN WriteChunks(out, iter_content(response.content, chunk_size))
    ELSE out

\* A variant of TopFetchOk that takes any response for a success.
TopFetchOkAnyStatus(status) == TRUE

\* download_m3u8's test of the response.
TopFetchOk(status) == status = 200

\* A variant of ConvertCallSite with the call inside the with block.
ConvertCallSiteInsideWith(p) == p \in {"loop", "convert"}

\* Where convert_to_mp4 is called from: after the with block has closed outfile.
ConvertCallSite(p) == p = "convert"

\* A variant of ShouldRemove that keeps ts_file after a failed conversion.
ShouldRemoveOnSuccess(exists, result) == exists /\ result = "converted"

\* The finally block of convert_to_mp4 removes ts_file when it exists,
\* whatever the try block did.
ShouldRemove(exists, result) == exists

----------------------------------------------------------------------------
(* The state after `self.url = url ... self.output_mp4 = output_mp4`, with *)
(* what the server holds.                                                  *)

Init ==
    /\ \/ server_top \in TopTexts /\ server_sub = FixedSubText
       \/ server_top = FixedTopText /\ server_sub \in SubTexts
    /\ pc = "download"
    /\ m3u8_content = None
    /\ media_urls = <<>>
    /\ choice = None
    /\ selected_url = None
    /\ sub_content = None
    /\ segment_urls = <<>>
    /\ i = 0
    /\ outfile = <<>>
    /\ file_open = FALSE
    /\ temp_exists = FALSE
    /\ video = "none"
    /\ fetched = <<>>
    /\ log = <<>>
    /\ exc = None

Fetched(url, status) == Append(fetched, [url |-> url, status |-> status])

\* M3U8Downloader.download_m3u8
DownloadM3u8 ==
    /\ pc = "download"
    /\ \E status \in Outcomes :
        /\ fetched' = Fetched(TopUrl, status)
        /\ IF status = 0
           THEN /\ exc' = Raised("ConnectionError", "", <<>>)
                /\ pc' = "raised"
                /\ UNCHANGED <<m3u8_content, log>>
           ELSE IF TopFetchOk(status)
           THEN /\ m3u8_content' = Some(server_top)
                /\ log' = Append(log, Msg("Successfully downloaded the .m3u8 file.", <<>>))
                /\ pc' = "parse"
                /\ exc' = exc
           ELSE /\ exc' = Raised("Exception",
                                 "Failed to download .m3u8 file. Status code: {response.status_code}",
                                 <<ToStr(status)>>)
                /\ pc' = "raised"
                /\ UNCHANGED <<m3u8_content, log>>
    /\ UNCHANGED <<server_top, server_sub, media_urls, choice, selected_url, sub_content,
                   segment_urls, i, outfile, file_open, temp_exists, video>>

\* M3U8Downloader.parse_m3u8
ParseM3u8 ==
    /\ pc = "parse"
    /\ IF m3u8_content = None
       THEN /\ exc' = Raised("AttributeError", "'NoneType' object has no attribute 'splitlines'", <<>>)
            /\ pc' = "raised"
            /\ UNCHANGED media_urls
       ELSE /\ media_urls' = ParseFrom(SplitLines(m3u8_content[1]), 1, media_urls)
            /\ pc' = "ask"
            /\ exc' = exc
    /\ UNCHANGED <<server_top, server_sub, m3u8_content, choice, selected_url, sub_content,
                   segment_urls, i, outfile, file_open, temp_exists, video, fetched, log>>

\* M3U8Downloader.ask_resolution_and_download, with an empty self.media_urls
AskNoMedia ==
    /\ pc = "ask"
    /\ media_urls = <<>>
    /\ log' = Append(log, Msg("No media URLs found.", <<>>))
    /\ pc' = "returned"
    /\ UNCHANGED <<server_top, server_sub, m3u8_content, media_urls, choice, selected_url,
                   sub_content, segment_urls, i, outfile, file_open, temp_exists, video,
                   fetched, exc>>

\* M3U8Downloader.ask_resolution_and_download, up to the call of
\* merge_segments_and_convert
AskResolution ==
    /\ pc = "ask"
    /\ media_urls # <<>>
    /\ \E typed \in Inputs :
        LET sel == SelectResolution(media_urls, Strip(typed))
            url == DictGet(media_urls, sel.resolution)
        IN  /\ choice' = Some(typed)
            /\ IF ~sel.ok
               THEN /\ log' = log \o Listing(media_urls) \o <<Msg(sel.fmt, <<>>)>>
                    /\ pc' = "returned"
                    /\ UNCHANGED selected_url
               ELSE IF url # <<>>
               THEN /\ log' = log \o Listing(media_urls)
                    /\ selected_url' = Some(url)
                    /\ pc' = "merge"
               ELSE /\ log' = log \o Listing(media_urls) \o <<Msg("Resolution not found.", <<>>)>>
                    /\ pc' = "returned"
                    /\ UNCHANGED selected_url
    /\ UNCHANGED <<server_top, server_sub, m3u8_content, media_urls, sub_content,
                   segment_urls, i, outfile, file_open, temp_exists, video, fetched, exc>>

\* M3U8Downloader.merge_segments_and_convert, up to the call of
\* concatenate_segments
MergeSegmentsAndConvert ==
    /\ pc = "merge"
    /\ \E status \in Outcomes :
        /\ fetched' = Fetched(selected_url[1], status)
        /\ IF status = 0
           THEN /\ exc' = Raised("ConnectionError", "", <<>>)
                /\ pc' = "raised"
                /\ UNCHANGED <<sub_content, log>>
           ELSE IF status = 200
           THEN /\ sub_content' = Some(server_sub)
                /\ log' = Append(log, Msg("Successfully downloaded the media .m3u8 file.", <<>>))
                /\ pc' = "concatenate"
                /\ exc' = exc
           ELSE /\ log' = Append(log,
                    Msg("Failed to download media .m3u8 file. Status code: {response.status_code}",
                        <<ToStr(status)>>))
                /\ pc' = "returned"
                /\ UNCHANGED <<sub_content, exc>>
    /\ UNCHANGED <<server_top, server_sub, m3u8_content, media_urls, choice, selected_url,
                   segment_urls, i, outfile, file_open, temp_exists, video>>

\* concatenate_segments up to the loop: segment_urls, and open(temp_ts_file, 'wb')
OpenOutfile ==
    /\ pc = "concatenate"
    /\ segment_urls' = SegmentUrls(SplitLines(sub_content[1]))
    /\ i' = 0
    /\ outfile' = <<>>
    /\ file_open' = TRUE
    /\ temp_exists' = TRUE
    /\ pc' = "loop"
    /\ UNCHANGED <<server_top, server_sub, m3u8_content, media_urls, choice, selected_url,
                   sub_content, video, fetched, log, exc>>

\* One iteration of the segment loop of concatenate_segments
FetchSegment ==
    /\ pc = "loop"
    /\ i < Len(segment_urls)
    /\ \E status \in Outcomes :
        LET segment_url == segment_urls[i + 1]
            response == SegmentResponse(segment_url, status)
        IN  /\ fetched' = Fetched(segment_url, status)
            /\ IF status = 0
               THEN /\ exc' = Raised("ConnectionError", "", <<>>)
                    /\ file_open' = FALSE
                    /\ pc' = "raised"
                    /\ UNCHANGED <<i, outfile, log>>
               ELSE /\ outfile' = WriteResponse(outfile, response)
                    /\ log' = IF response.status_code = 200 THEN log
                              ELSE Append(log,
                                     Msg("Failed to download segment. Status code: {response.status_code}",
                                         <<ToStr(response.status_code)>>))
                    /\ i' = i + 1
                    /\ UNCHANGED <<file_open, pc, exc>>
    /\ UNCHANGED <<server_top, server_sub, m3u8_content, media_urls, choice, selected_url,
                   sub_content, segment_urls, temp_exists, video>>

\* The end of the with block of concatenate_segments, and the print after it
CloseOutfile ==
    /\ pc = "loop"
    /\ i = Len(segment_urls)
    /\ file_open' = FALSE
    /\ log' = Append(log, Msg("All segments have been merged into {temp_ts_file}.", <<<<"temp.ts">>>>))
    /\ pc' = "convert"
    /\ UNCHANGED <<server_top, server_sub, m3u8_content, media_urls, choice, selected_url,
                   sub_content, segment_urls, i, outfile, temp_exists, video, fetched, exc>>

\* The try/except of convert_to_mp4: VideoFileClip(ts_file) can fail, and so
\* can write_videofile.
ConvertToMp4 ==
    /\ ConvertCallSite(pc)
    /\ \E result \in {"converted", "open failed", "write failed"} :
        /\ video' = result
        /\ log' = Append(log,
                    IF result = "converted"
                    THEN Msg("Successfully converted {ts_file} to {self.output_mp4}.",
                             <<<<"temp.ts">>, <<"output.mp4">>>>)
                    ELSE Msg("Failed to convert video. Error: {e}", <<<<result>>>>))
    /\ pc' = "finally"
    /\ UNCHANGED <<server_top, server_sub, m3u8_content, media_urls, choice, selected_url,
                   sub_content, segment_urls, i, outfile, file_open, temp_exists, fetched, exc>>

\* The finally block of convert_to_mp4: os.remove(ts_file) can raise
\* PermissionError, which is caught and printed.
ConvertFinally ==
    /\ pc = "finally"
    /\ IF ShouldRemove(temp_exists, video)
       THEN \E removed \in BOOLEAN :
              /\ temp_exists' = ~removed
              /\ log' = Append(log,
                          IF removed
                          THEN Msg("Deleted temporary file {ts_file}.", <<<<"temp.ts">>>>)
                          ELSE Msg("Failed to delete temporary file. Error: {e}",
                                   <<<<"PermissionError">>>>))
       ELSE UNCHANGED <<temp_exists, log>>
    /\ pc' = "done"
    /\ UNCHANGED <<server_top, server_sub, m3u8_content, media_urls, choice, selected_url,
                   sub_content, segment_urls, i, outfile, file_open, video, fetched, exc>>

Next ==
    \/ DownloadM3u8
    \/ ParseM3u8
    \/ AskNoMedia
    \/ AskResolution
    \/ MergeSegmentsAndConvert
    \/ OpenOutfile
    \/ FetchSegment
    \/ CloseOutfile
    \/ ConvertToMp4
    \/ ConvertFinally

Spec == Init /\ [][Next]_vars

----------------------------------------------------------------------------
(* Vocabulary of the properties. *)

\* The with block of concatenate_segments has ended normally.
Assembled == pc \in {"convert", "finally", "done"}

\* The requests.get calls of the segment loop: those after the two manifests'.
SegFetches == SubSeq(fetched, 3, Len(fetched))

SegStatuses == [k \in 1..Len(SegFetches) |-> SegFetches[k].status]

AllOk(statuses) == \A k \in 1..Len(statuses) : statuses[k] = 200

IsSegmentLine(line) == StartsWith(line, "/")

\* The '/'-prefixed lines of the sub-manifest, in the order they appear.
SegLines == SelectSeq(SplitLines(sub_content[1]), IsSegmentLine)

\* The body the server holds for the segment a line refers to.
ServerBody(line) == Body(urljoin(base_url, line))

\* The bodies of the lines whose fetch returned 200, one after the other.
RECURSIVE ConcatOk(_, _)
ConcatOk(lines, statuses) ==
    IF lines = <<>> THEN <<>>
    ELSE (IF Head(statuses) = 200 THEN ServerBody(Head(lines)) ELSE <<>>)
         \o ConcatOk(Tail(lines), Tail(statuses))

\* The bodies of all the lines, one after the other.
RECURSIVE ConcatAll(_)
ConcatAll(lines) ==
    IF lines = <<>> THEN <<>> ELSE ServerBody(Head(lines)) \o ConcatAll(Tail(lines))

\* parse_m3u8 has run over the top-level manifest.
Parsed == m3u8_content # None /\ pc \notin {"download", "parse"}

ManifestLines == SplitLines(m3u8_content[1])

\* The positions (from 1) of the 'https://' lines.
MediaPositions(lines) == {k \in 1..Len(lines) : StartsWith(lines[k], "https://")}

\* The line right before position k, or the empty string at the first position.
PrecedingLine(lines, k) == IF k > 1 THEN lines[k - 1] ELSE <<>>

\* The tag the line right before position k carries.
TagAt(lines, k) == extract_resolution(PrecedingLine(lines, k))

SetMax(S) == CHOOSE m \in S : \A n \in S : n <= m

----------------------------------------------------------------------------
(* The properties. *)

\* C1: when every segment fetch returned 200, the bytes written to the
\* output file are the bodies of the '/'-prefixed lines of the sub-manifest,
\* in the order of the lines, repeated lines included, with nothing
\* reordered, left out, written twice or put in between.
C1_ConcatenationExact ==
    (Assembled /\ AllOk(SegStatuses)) => outfile = ConcatAll(SegLines)

C1_Witness ==
    /\ Assembled
    /\ SegLines = <<SegA, SegB, SegC>>
    /\ SegStatuses = <<200, 200, 200>>
    /\ outfile = <<"A", "A", "A", "B", "B", "C">>

\* C2: a segment whose fetch returned a non-200 status is skipped and the
\* loop goes on: every segment line is fetched, in order, and the output is
\* the bodies of exactly the segments that returned 200, in manifest order,
\* with no byte of a failed response.
C2_BestEffortSkips ==
    Assembled =>
        /\ Len(SegFetches) = Len(SegLines)
        /\ \A k \in 1..Len(SegLines) : SegFetches[k].url = urljoin(base_url, SegLines[k])
        /\ outfile = ConcatOk(SegLines, SegStatuses)

C2_Witness ==
    /\ Assembled
    /\ SegLines = <<SegA, SegB, SegC>>
    /\ SegStatuses = <<200, 404, 200>>
    /\ outfile = <<"A", "A", "A", "C">>

\* C3: every segment that was skipped is reported with its resolved URL and
\* its failure cause, and the report that ends assembly says "all merged"
\* only when no segment was skipped.
C3_FailuresReportedAndFlagged ==
    Assembled =>
        /\ \A k \in 1..Len(SegFetches) :
              SegFetches[k].status # 200 =>
                 \E m \in Range(log) :
                    /\ SegFetches[k].url \in Range(m.args)
                    /\ ToStr(SegFetches[k].status) \in Range(m.args)
        /\ (\E m \in Range(log) : m.fmt = "All segments have been merged into {temp_ts_file}.")
              => AllOk(SegStatuses)

\* C4: once the fetch of the top-level manifest has returned anything but a
\* 200, the run has ended with an exception (carrying the status code when
\* there is one), m3u8_content is unset, and nothing else has happened or
\* ever happens: no variant parsed, no prompt, no further fetch, no output
\* file, no transcode.
TopFetchFailed == fetched # <<>> /\ fetched[1].status # 200

C4_TopFetchFailureIsFatal ==
    TopFetchFailed =>
        /\ pc = "raised"
        /\ exc # None
        /\ fetched[1].status # 0 =>
              /\ exc[1].type = "Exception"
              /\ exc[1].args = <<ToStr(fetched[1].status)>>
        /\ m3u8_content = None
        /\ media_urls = <<>>
        /\ choice = None
        /\ selected_url = None
        /\ Len(fetched) = 1
        /\ sub_content = None
        /\ ~file_open
        /\ ~temp_exists
        /\ outfile = <<>>
        /\ video = "none"
        /\ log = <<>>

C4_Witness ==
    /\ pc = "raised"
    /\ fetched = <<[url |-> TopUrl, status |-> 404]>>
    /\ exc[1].args = <<<<"4", "0", "4">>>>

\* C5: with a non-empty variant index, empty input at the prompt selects the
\* first entry in insertion order and the run goes on to download that
\* variant's sub-manifest.
C5_EmptyInputSelectsFirst ==
    (choice # None /\ Strip(choice[1]) = <<>> /\ media_urls # <<>>) =>
        /\ pc # "returned"
        /\ selected_url = Some(media_urls[1].value)

\* C6, as claimed: after a failed transcode temp.ts is still there.
C6_RetainedOnTranscodeFailure ==
    video \in {"open failed", "write failed"} => temp_exists

\* C6, amended: convert_to_mp4 tries to delete temp.ts after a failed
\* transcode just as after a successful one; once it has returned, temp.ts is
\* still there only when the deletion itself failed with PermissionError.
C6_RemovedWhateverTheResult ==
    pc = "done" =>
        (temp_exists <=>
            log[Len(log)] = Msg("Failed to delete temporary file. Error: {e}",
                                <<<<"PermissionError">>>>))

C6_Witness ==
    /\ pc = "done"
    /\ video = "write failed"
    /\ ~temp_exists
    /\ outfile = <<"A", "A", "A", "B", "B", "C">>

\* C7: when two or more 'https://' lines carry the same resolution tag, the
\* variant index holds exactly one entry for that tag and its value is the
\* last of those lines.
C7_LastWriteWins ==
    Parsed =>
        \A k \in MediaPositions(ManifestLines) :
            LET t == TagAt(ManifestLines, k)
                same == {n \in MediaPositions(ManifestLines) : TagAt(ManifestLines, n) = t}
            IN  Cardinality(same) >= 2 =>
                    /\ Cardinality({n \in 1..Len(media_urls) : media_urls[n].key = t}) = 1
                    /\ DictGet(media_urls, t) = ManifestLines[SetMax(same)]

\* C9: the tag parse_m3u8 derives for the 'https://' line at position k is
\* the one extracted from the line at position k - 1 (the empty string at the
\* first position), in manifests where a URL line occurs at several positions
\* too, and it is "Unknown" exactly when that line has no RESOLUTION= marker.
C9_MetadataLineIsPreceding ==
    Parsed =>
        \A k \in MediaPositions(ManifestLines) :
            LET used == extract_resolution(resolution_line(ManifestLines, ManifestLines[k]))
            IN  /\ used = TagAt(ManifestLines, k)
                /\ used = <<"Unknown">>
                      <=> ~Contains(PrecedingLine(ManifestLines, k), "RESOLUTION=")

\* C10: the transcode runs only once every segment URL has been processed
\* and the output file has been closed, and no byte is written to the output
\* file after it has started.
TranscodeStarted == video # "none"

C10_TranscodeAfterClose ==
    /\ [](TranscodeStarted =>
            /\ ~file_open
            /\ i = Len(segment_urls)
            /\ Len(SegFetches) = Len(segment_urls))
    /\ [][TranscodeStarted => outfile' = outfile]_vars

C10_Witness ==
    /\ video = "converted"
    /\ Len(segment_urls) = 3
    /\ i = 3
    /\ ~file_open

====
